---- MODULE Spec2Model ----
(***************************************************************************)
(* Model of package validate (validate.go): the dispatcher V, the          *)
(* composers Property/PropertyFunc/Index/IndexFunc, the PropertyError      *)
(* chain with its three methods, and the constructor Invalid.              *)
(*                                                                         *)
(* Go strings are sequences of one-character strings, so that formatting   *)
(* and concatenation are computed character by character.                  *)
(***************************************************************************)
EXTENDS Integers, Sequences, FiniteSets, TLC

VARIABLES
    cur,     \* the error returned by the most recent call (Nil when none)
    op,      \* the most recent call: its name, its arguments after the call
    log,     \* history: the wraps that built cur, outermost first
    origin,  \* history: the non-PropertyError error the chain of cur started from
    out      \* the result of the most recent method call on cur

vars == <<cur, op, log, origin, out>>

\* ------------------------------------------------------------------ bounds

\* Longest PropertyError chain the model builds.
MaxDepth == 3
\* Longest token list handed to Invalid.
MaxTokens == 4

\* ----------------------------------------------------------------- strings

sEmpty == <<>>
sA == <<"A">>
sB == <<"B">>
sBars == <<"B", "a", "r", "s">>
sBaz == <<"B", "a", "z">>
sK == <<"k">>
sQux == <<"q", "u", "x">>
sFoo == <<"f", "o", "o">>
sBar == <<"b", "a", "r">>
sInvalid == <<"I", "n", "v", "a", "l", "i", "d">>
sNilV == <<"<", "n", "i", "l", ">">>
sSliceType == <<"[", "]", "i", "n", "t", "e", "r", "f", "a", "c", "e", " ", "{", "}">>

\* ------------------------------------------------------------------ values

\* interface{} values: the nil interface, an int, a string, and a value whose
\* type has a Validate method.  results[k] is what the k-th Validate() call
\* returns; called counts the calls made so far.
NilValue == [kind |-> "nil"]
IntValue(i) == [kind |-> "int", i |-> i]
StringValue(s) == [kind |-> "string", s |-> s]
Validatable(results) == [kind |-> "Interface", results |-> results, called |-> 0]

\* error values: the nil error, an errors.New/fmt.Errorf error, a PropertyError.
Nil == [kind |-> "nil"]
ErrorString(msg) == [kind |-> "error", msg |-> msg]

PropertyError(property, index, err) ==
    [kind |-> "PropertyError", property |-> property, index |-> index, err |-> err]

\* --------------------------------------------------------------- formatting

Digits == <<"0", "1", "2", "3", "4", "5", "6", "7", "8", "9">>

\* strconv-style decimal rendering of a non-negative int.
RECURSIVE Itoa(_)
Itoa(n) ==
    IF n < 10 THEN <<Digits[n + 1]>>
    ELSE Itoa(n \div 10) \o <<Digits[(n % 10) + 1]>>

\* Go-syntax quoting of a string without characters that need escaping.
Quote(s) == <<"\"">> \o s \o <<"\"">>

\* fmt's %v (and fmt.Sprint of one operand) for a string, int or nil operand.
FormatV(v) ==
    CASE v.kind = "string" -> v.s
      [] v.kind = "int" -> Itoa(v.i)
      [] OTHER -> sNilV

\* fmt's %#v for a string, int or (top-level) nil operand.
FormatSharpV(v) ==
    CASE v.kind = "string" -> Quote(v.s)
      [] v.kind = "int" -> Itoa(v.i)
      [] OTHER -> sNilV

\* The rendered elements of a slice with sep between them.
RECURSIVE Elements(_, _)
Elements(ss, sep) ==
    IF ss = <<>> THEN <<>>
    ELSE IF Len(ss) = 1 THEN ss[1]
    ELSE ss[1] \o sep \o Elements(Tail(ss), sep)

\* fmt's %v for a []interface{}: [a b c].
SliceV(s) ==
    <<"[">> \o Elements([i \in 1..Len(s) |-> FormatV(s[i])], <<" ">>) \o <<"]">>

\* fmt's %#v for a non-nil []interface{}: []interface {}{"a", 1}.
SliceSharpV(s) ==
    sSliceType \o <<"{">>
        \o Elements([i \in 1..Len(s) |-> FormatSharpV(s[i])], <<",", " ">>)
        \o <<"}">>

\* ------------------------------------------------------------- the library

\* v.(Interface).Validate(): the next scripted result; the call is counted.
Validate(v) ==
    [err |-> v.results[v.called + 1], v |-> [v EXCEPT !.called = @ + 1]]

\* V with the result of Validate dropped.
V_DropsResult(v) ==
    IF v.kind = "Interface"
    THEN [err |-> Nil, v |-> Validate(v).v]
    ELSE [err |-> Nil, v |-> v]

\* func V(v interface{}) error.  Returns the error and v after the call.
V(v) ==
    IF v.kind = "Interface" THEN Validate(v) ELSE [err |-> Nil, v |-> v]

\* Closures handed to PropertyFunc/IndexFunc.  Func is a caller's closure with
\* scripted results; PropertyThunk and IndexThunk are the closures Property
\* and Index build around V(value).
Func(results) == [kind |-> "func", results |-> results, called |-> 0]
PropertyThunk(value) == [kind |-> "Property.func", value |-> value, called |-> 0]
IndexThunk(value) == [kind |-> "Index.func", value |-> value, called |-> 0]

\* validate(): one invocation of a closure.  Returns the error and the closure
\* after the call.
Call(validate) ==
    CASE validate.kind = "Property.func" ->
            LET r == V(validate.value)
            IN  [err |-> r.err,
                 validate |-> [validate EXCEPT !.value = r.v, !.called = @ + 1]]
      [] validate.kind = "Index.func" ->
            LET r == V(validate.value)
            IN  [err |-> IF r.err /= Nil THEN r.err ELSE Nil,
                 validate |-> [validate EXCEPT !.value = r.v, !.called = @ + 1]]
      [] OTHER ->
            [err |-> validate.results[validate.called + 1],
             validate |-> [validate EXCEPT !.called = @ + 1]]

\* PropertyFunc that hands an error that is already a PropertyError through
\* without a layer of its own.
PropertyFunc_NoNest(property, validate) ==
    LET r == Call(validate)
    IN  [err |-> CASE r.err = Nil -> Nil
                   [] r.err.kind = "PropertyError" -> r.err
                   [] OTHER -> PropertyError(FormatV(property), NilValue, r.err),
         validate |-> r.validate]

\* func PropertyFunc(property interface{}, validate func() error) error.
PropertyFunc(property, validate) ==
    LET r == Call(validate)
    IN  [err |-> IF r.err /= Nil
                 THEN PropertyError(FormatV(property), NilValue, r.err)
                 ELSE Nil,
         validate |-> r.validate]

\* Property without the nil check on what V returned.
Property_AlwaysWraps(property, value) ==
    LET r == Call(PropertyThunk(value))
    IN  [err |-> PropertyError(property, NilValue, r.err), validate |-> r.validate]

\* func Property(property string, value interface{}) error.
Property(property, value) ==
    PropertyFunc(StringValue(property), PropertyThunk(value))

\* IndexFunc that asks the closure a second time after a failure.
IndexFunc_Retry(index, validate) ==
    LET r1 == Call(validate)
        r == IF r1.err /= Nil THEN Call(r1.validate) ELSE r1
    IN  [err |-> IF r.err /= Nil
                 THEN PropertyError(sEmpty, index, r.err)
                 ELSE Nil,
         validate |-> r.validate]

\* func IndexFunc(index interface{}, validate func() error) (err error).
IndexFunc(index, validate) ==
    LET r == Call(validate)
    IN  [err |-> IF r.err /= Nil
                 THEN PropertyError(sEmpty, index, r.err)
                 ELSE Nil,
         validate |-> r.validate]

\* func Index(index, value interface{}) error.
Index(index, value) == IndexFunc(index, IndexThunk(value))

\* OriginatingError that unwraps one layer only.
PropertyError_OriginatingError_OneLevel(err) == err.err

\* func (err PropertyError) OriginatingError() error.
RECURSIVE PropertyError_OriginatingError(_)
PropertyError_OriginatingError(err) ==
    IF err.err.kind = "PropertyError"
    THEN PropertyError_OriginatingError(err.err)
    ELSE err.err

\* The prefix with the brackets rendered whether or not the index is set.
Prefix_NoNilCheck(err) ==
    err.property \o <<"[">> \o FormatSharpV(err.index) \o <<"]">>

\* prefix := err.property; if err.index != nil { prefix = "%s[%#v]" }.
Prefix(err) ==
    IF err.index /= NilValue
    THEN err.property \o <<"[">> \o FormatSharpV(err.index) \o <<"]">>
    ELSE err.property

\* func (err PropertyError) Property() string.
PropertyError_Property(err) ==
    IF err.err.kind = "PropertyError"
    THEN Prefix(err) \o <<".">> \o err.property
    ELSE Prefix(err)

\* Error with a "." before every inner PropertyError, index-only or not.
RECURSIVE PropertyError_Error_AlwaysDot(_)
PropertyError_Error_AlwaysDot(err) ==
    IF err.err.kind = "PropertyError"
    THEN Prefix(err) \o <<".">> \o PropertyError_Error_AlwaysDot(err.err)
    ELSE Prefix(err) \o <<":", " ">>
            \o (IF err.err.kind = "error" THEN err.err.msg ELSE sNilV)

\* Error with the test for an empty inner property inverted.
RECURSIVE PropertyError_Error_Inverted(_)
PropertyError_Error_Inverted(err) ==
    IF err.err.kind = "PropertyError"
    THEN IF err.err.property /= sEmpty
         THEN Prefix(err) \o PropertyError_Error_Inverted(err.err)
         ELSE Prefix(err) \o <<".">> \o PropertyError_Error_Inverted(err.err)
    ELSE Prefix(err) \o <<":", " ">>
            \o (IF err.err.kind = "error" THEN err.err.msg ELSE sNilV)

\* func (err PropertyError) Error() string.  The inner error is rendered by
\* %v, which calls its Error method.
RECURSIVE PropertyError_Error(_)
PropertyError_Error(err) ==
    IF err.err.kind = "PropertyError"
    THEN IF err.err.property = sEmpty
         THEN Prefix(err) \o PropertyError_Error(err.err)
         ELSE Prefix(err) \o <<".">> \o PropertyError_Error(err.err)
    ELSE Prefix(err) \o <<":", " ">>
            \o (IF err.err.kind = "error" THEN err.err.msg ELSE sNilV)

\* func Invalid(v ...interface{}) error.
Invalid(v) ==
    LET size == Len(v)
        prefix == IF size > 1
                  THEN sInvalid \o SliceV(SubSeq(v, 1, size - 1))
                  ELSE sInvalid
    IN  IF size >= 1
        THEN ErrorString(prefix \o <<":", " ">> \o SliceSharpV(SubSeq(v, 1, size - 1)))
        ELSE ErrorString(prefix)

\* ------------------------------------------------------------------ inputs

\* Number of PropertyError layers of an error.
RECURSIVE Depth(_)
Depth(e) == IF e.kind = "PropertyError" THEN 1 + Depth(e.err) ELSE 0

\* The layers of a chain, outermost first, as (property, index) pairs.
RECURSIVE Layers(_)
Layers(e) ==
    IF e.kind = "PropertyError"
    THEN <<[property |-> e.property, index |-> e.index]>> \o Layers(e.err)
    ELSE <<>>

\* The error that is not a PropertyError: errors.New("qux").
LeafError == ErrorString(sQux)

\* What a caller's closure or Validate method returns when first called:
\* nothing, a fresh error, or the error an inner call has just returned
\* (nesting); and what it would return if it were called again.
Firsts == {Nil, cur, LeafError}
Agains == {Nil, LeafError}
Scripts == {<<f, a>> : f \in Firsts, a \in Agains}

PlainValues == {NilValue, IntValue(3)}
Values == PlainValues \cup {Validatable(s) : s \in Scripts}
Funcs == {Func(s) : s \in Scripts}

Names == {sA, sB, sBars, sBaz, sEmpty}
Properties == {StringValue(n) : n \in Names} \cup {IntValue(7)}
Indexes == {NilValue, IntValue(1), StringValue(sK)}
Tokens == {StringValue(sFoo), StringValue(sBar), IntValue(1)}
TokenLists == UNION {[1..n -> Tokens] : n \in 0..MaxTokens}

\* The first scripted result of a value's Validate or of a closure: Nil for a
\* value without the method.
RECURSIVE Scripted(_)
Scripted(x) ==
    CASE x.kind \in {"Interface", "func"} -> x.results[1]
      [] x.kind \in {"Property.func", "Index.func"} -> Scripted(x.value)
      [] OTHER -> Nil

\* Invocations of a closure, and Validate calls on the value behind it.
RECURSIVE ValidateCalls(_)
ValidateCalls(x) ==
    CASE x.kind = "Interface" -> x.called
      [] x.kind \in {"Property.func", "Index.func"} -> ValidateCalls(x.value)
      [] OTHER -> 0

NoOp == [fn |-> "none"]
NoOut == [method |-> "none"]

\* The record of a call: its name and label, the value or closure it was
\* given as it was before the call (arg), and how often the call invoked the
\* closure (calls) and Validate (validateCalls).
Record(fn, label, arg, after) ==
    [fn |-> fn, label |-> label, arg |-> arg,
     calls |-> IF after.kind \in {"func", "Property.func", "Index.func"}
               THEN after.called ELSE 0,
     validateCalls |-> ValidateCalls(after)]

\* History: the wraps applied (entry) around what the callee returned (r).
Track(entry, r) ==
    /\ log' = IF r = Nil THEN <<>> ELSE entry \o (IF r = cur THEN log ELSE <<>>)
    /\ origin' = IF r = Nil THEN Nil ELSE IF r = cur THEN origin ELSE r

\* ----------------------------------------------------------------- actions

Init ==
    /\ cur = Nil
    /\ op = NoOp
    /\ log = <<>>
    /\ origin = Nil
    /\ out = NoOut

CallV(value) ==
    LET r == V(value)
    IN  /\ out = NoOut
        /\ cur' = r.err
        /\ op' = Record("V", NilValue, value, r.v)
        /\ Track(<<>>, Scripted(value))
        /\ out' = NoOut

CallPropertyFunc(property, validate) ==
    LET r == PropertyFunc(property, validate)
    IN  /\ out = NoOut
        /\ Depth(Scripted(validate)) < MaxDepth
        /\ cur' = r.err
        /\ op' = Record("PropertyFunc", property, validate, r.validate)
        /\ Track(<<[fn |-> "PropertyFunc", label |-> property]>>, Scripted(validate))
        /\ out' = NoOut

CallProperty(property, value) ==
    LET r == Property(property, value)
    IN  /\ out = NoOut
        /\ Depth(Scripted(value)) < MaxDepth
        /\ cur' = r.err
        /\ op' = Record("Property", StringValue(property), value, r.validate)
        /\ Track(<<[fn |-> "PropertyFunc", label |-> StringValue(property)]>>,
                 Scripted(value))
        /\ out' = NoOut

CallIndexFunc(index, validate) ==
    LET r == IndexFunc(index, validate)
    IN  /\ out = NoOut
        /\ Depth(Scripted(validate)) < MaxDepth
        /\ cur' = r.err
        /\ op' = Record("IndexFunc", index, validate, r.validate)
        /\ Track(<<[fn |-> "IndexFunc", label |-> index]>>, Scripted(validate))
        /\ out' = NoOut

CallIndex(index, value) ==
    LET r == Index(index, value)
    IN  /\ out = NoOut
        /\ Depth(Scripted(value)) < MaxDepth
        /\ cur' = r.err
        /\ op' = Record("Index", index, value, r.validate)
        /\ Track(<<[fn |-> "IndexFunc", label |-> index]>>, Scripted(value))
        /\ out' = NoOut

CallError ==
    /\ cur.kind = "PropertyError"
    /\ out' = [method |-> "Error", str |-> PropertyError_Error(cur)]
    /\ UNCHANGED <<cur, op, log, origin>>

CallPropertyMethod ==
    /\ cur.kind = "PropertyError"
    /\ out' = [method |-> "Property", str |-> PropertyError_Property(cur)]
    /\ UNCHANGED <<cur, op, log, origin>>

CallOriginatingError ==
    /\ cur.kind = "PropertyError"
    /\ out' = [method |-> "OriginatingError", err |-> PropertyError_OriginatingError(cur)]
    /\ UNCHANGED <<cur, op, log, origin>>

CallInvalid(v) ==
    /\ cur' = Invalid(v)
    /\ op' = [fn |-> "Invalid", v |-> v]
    /\ log' = <<>>
    /\ origin' = cur'
    /\ out' = NoOut

Next ==
    \/ \E value \in Values : CallV(value)
    \/ \E property \in Properties, validate \in Funcs : CallPropertyFunc(property, validate)
    \/ \E property \in Names, value \in Values : CallProperty(property, value)
    \/ \E index \in Indexes, validate \in Funcs : CallIndexFunc(index, validate)
    \/ \E index \in Indexes, value \in Values : CallIndex(index, value)
    \/ CallError
    \/ CallPropertyMethod
    \/ CallOriginatingError

Spec == Init /\ [][Next]_vars

\* Invalid alone, over every token list up to MaxTokens.
NextInvalid == \E v \in TokenLists : CallInvalid(v)

SpecInvalid == Init /\ [][NextInvalid]_vars

\* ------------------------------------------------------- reference notions

\* The innermost error of a chain that is not a PropertyError.
RECURSIVE Innermost(_)
Innermost(e) == IF e.kind = "PropertyError" THEN Innermost(e.err) ELSE e

\* The strings of a sequence joined by sep.
RECURSIVE Join(_, _)
Join(ss, sep) ==
    IF ss = <<>> THEN <<>>
    ELSE IF Len(ss) = 1 THEN ss[1]
    ELSE ss[1] \o sep \o Join(Tail(ss), sep)

\* Occurrences of the character ch in the string s.
RECURSIVE Count(_, _)
Count(s, ch) ==
    IF s = <<>> THEN 0
    ELSE (IF Head(s) = ch THEN 1 ELSE 0) + Count(Tail(s), ch)

Wrappers == {"PropertyFunc", "Property", "IndexFunc", "Index"}

\* The layer a logged wrap is to have added.
ExpectedLayer(entry) ==
    IF entry.fn = "PropertyFunc"
    THEN [property |-> FormatV(entry.label), index |-> NilValue]
    ELSE [property |-> sEmpty, index |-> entry.label]

\* A logged wrap made by IndexFunc/Index with a key that is not nil.
Keyed(entry) == entry.fn = "IndexFunc" /\ entry.label /= NilValue

\* A logged wrap made by PropertyFunc/Property with a non-empty name.
Named(entry) == entry.fn = "PropertyFunc" /\ FormatV(entry.label) /= sEmpty

\* ------------------------------------------------------------------ claims

\* C1: V(x) returns exactly what x.Validate() returns when x has the Validate
\* method, and nil when it has not (the nil value included).
C1_VDispatch ==
    op.fn = "V" =>
        IF op.arg.kind = "Interface"
        THEN cur = op.arg.results[1] /\ op.validateCalls = 1
        ELSE cur = Nil

\* V was given a value whose Validate returned a nested PropertyError, and
\* returned that error.
C1_Witness ==
    /\ op.fn = "V"
    /\ op.arg.kind = "Interface"
    /\ cur.kind = "PropertyError"
    /\ Depth(cur) = 2

\* C2: Property(name, value) returns nil iff V(value) returns nil; otherwise it
\* returns a PropertyError whose OriginatingError() is the innermost
\* non-PropertyError error of what V(value) returned.
C2_PropertyIffV ==
    op.fn = "Property" =>
        LET v == V(op.arg).err
        IN  /\ (cur = Nil) <=> (v = Nil)
            /\ v /= Nil =>
                /\ cur.kind = "PropertyError"
                /\ PropertyError_OriginatingError(cur) = Innermost(v)
                /\ Innermost(v) = origin

\* Property wrapped a value whose Validate returned an already nested
\* PropertyError.
C2_Witness ==
    /\ op.fn = "Property"
    /\ V(op.arg).err.kind = "PropertyError"
    /\ Depth(cur) = 3

\* C3: PropertyFunc and IndexFunc return nil when the closure returns nil and
\* otherwise add exactly one PropertyError layer around the closure's error,
\* unchanged; after n nested failing wraps the chain has exactly the n layers
\* of those wraps, outermost first.
C3_OneLayerPerWrap ==
    /\ op.fn \in {"PropertyFunc", "IndexFunc"} =>
        LET r == Scripted(op.arg)
        IN  IF r = Nil
            THEN cur = Nil
            ELSE /\ cur.kind = "PropertyError"
                 /\ cur.err = r
                 /\ Depth(cur) = Depth(r) + 1
                 /\ <<[property |-> cur.property, index |-> cur.index]>>
                        = <<ExpectedLayer([fn |-> op.fn, label |-> op.label])>>
    /\ Depth(cur) = Len(log)
    /\ \A i \in 1..Len(log) : Layers(cur)[i] = ExpectedLayer(log[i])
    /\ cur /= Nil => Innermost(cur) = origin

\* IndexFunc added a third layer around a chain that PropertyFunc had wrapped.
C3_Witness ==
    /\ op.fn = "IndexFunc"
    /\ Depth(cur) = 3
    /\ log[1].fn = "IndexFunc"
    /\ log[2].fn = "PropertyFunc"
    /\ cur.err = Scripted(op.arg)

\* A named layer around an index-only layer around a named layer around a
\* leaf error.
FusionShape(e) ==
    /\ e.kind = "PropertyError" /\ e.property /= sEmpty /\ e.index = NilValue
    /\ e.err.kind = "PropertyError"
    /\ e.err.property = sEmpty /\ e.err.index /= NilValue
    /\ e.err.err.kind = "PropertyError"
    /\ e.err.err.property /= sEmpty /\ e.err.err.index = NilValue
    /\ e.err.err.err.kind = "error"

BarsChain ==
    PropertyError(sBars, NilValue,
        PropertyError(sEmpty, IntValue(1),
            PropertyError(sBaz, NilValue, ErrorString(sQux))))

\* C4: Error() of a named layer around an index-only layer around a named
\* layer around a leaf is name[index].innerName: message, with no "." before
\* the bracket; the chain {Bars, {"", 1, {Baz, qux}}} is "Bars[1].Baz: qux".
C4_IndexFusion ==
    out.method = "Error" =>
        /\ FusionShape(cur) =>
            out.str = cur.property \o <<"[">> \o FormatSharpV(cur.err.index)
                        \o <<"]", ".">> \o cur.err.err.property
                        \o <<":", " ">> \o cur.err.err.err.msg
        /\ cur = BarsChain =>
            out.str = <<"B", "a", "r", "s", "[", "1", "]", ".", "B", "a", "z",
                        ":", " ", "q", "u", "x">>
        /\ cur = PropertyError(sA, NilValue, PropertyError(sEmpty, StringValue(sK),
                    PropertyError(sB, NilValue, ErrorString(sQux)))) =>
            out.str = <<"A", "[", "\"", "k", "\"", "]", ".", "B", ":", " ", "q", "u", "x">>

\* Error() was called on the chain PropertyFunc("Bars") / IndexFunc(1) /
\* PropertyFunc("Baz") built.
C4_Witness ==
    /\ out.method = "Error"
    /\ cur = BarsChain
    /\ Len(log) = 3
    /\ log[2] = [fn |-> "IndexFunc", label |-> IntValue(1)]

\* C5: Error() of k >= 1 nested PropertyFunc wraps with non-empty names around
\* a leaf error is the names joined by "." and then ": " and the leaf's
\* message; PropertyFunc("A", PropertyFunc("B", qux)) is "A.B: qux".
C5_NestingLaw ==
    out.method = "Error" =>
        /\ (Len(log) >= 1 /\ \A i \in 1..Len(log) : Named(log[i])) =>
            out.str = Join([i \in 1..Len(log) |-> FormatV(log[i].label)], <<".">>)
                        \o <<":", " ">> \o origin.msg
        /\ log = <<[fn |-> "PropertyFunc", label |-> StringValue(sA)],
                   [fn |-> "PropertyFunc", label |-> StringValue(sB)]>> =>
            out.str = <<"A", ".", "B", ":", " ", "q", "u", "x">>

\* Error() was called on what PropertyFunc("A") around PropertyFunc("B")
\* around a leaf returned.
C5_Witness ==
    /\ out.method = "Error"
    /\ log = <<[fn |-> "PropertyFunc", label |-> StringValue(sA)],
               [fn |-> "PropertyFunc", label |-> StringValue(sB)]>>
    /\ op.fn = "PropertyFunc"
    /\ origin = LeafError

\* C6: OriginatingError() of a chain of any depth is the leaf error the chain
\* was built around, never a PropertyError.
C6_OriginatingLeaf ==
    out.method = "OriginatingError" =>
        /\ out.err = origin
        /\ out.err.kind = "error"

\* OriginatingError() was called on a chain of three layers.
C6_Witness ==
    /\ out.method = "OriginatingError"
    /\ Depth(cur) = 3
    /\ out.err = LeafError

\* C7: Property() is this layer's prefix and, when the inner error is a
\* PropertyError, "." and the inner layer's property name.
C7_PropertyPath ==
    out.method = "Property" =>
        out.str = IF cur.err.kind = "PropertyError"
                  THEN Prefix(cur) \o <<".">> \o cur.err.property
                  ELSE Prefix(cur)

\* The message the documentation of Invalid gives: the tokens before the last
\* in the prefix, the last token rendered verbosely after the colon.
InvalidDoc(v) ==
    IF v = <<>> THEN sInvalid
    ELSE sInvalid
            \o Join([i \in 1..(Len(v) - 1) |-> <<" ">> \o FormatV(v[i])], <<>>)
            \o <<":", " ">> \o FormatSharpV(v[Len(v)])

\* C8: Invalid() is "Invalid"; with tokens the message has the tokens before
\* the last in the prefix and the last token, verbosely, after ": ", so that
\* no token is missing: Invalid("foo") is Invalid: "foo".
C8_InvalidMessage ==
    op.fn = "Invalid" => cur = ErrorString(InvalidDoc(op.v))

\* C9: every call of PropertyFunc/IndexFunc (Property and Index included)
\* invokes its closure exactly once, V invokes Validate once when the value
\* has it and never otherwise, and the result is that of the one invocation.
C9_NoRetries ==
    /\ op.fn \in Wrappers => op.calls = 1
    /\ op.fn \in {"V", "Property", "Index"} =>
        op.validateCalls = IF op.arg.kind = "Interface" THEN 1 ELSE 0
    /\ op.fn \in Wrappers =>
        /\ (cur = Nil) <=> (Scripted(op.arg) = Nil)
        /\ cur /= Nil => cur.err = Scripted(op.arg)

\* IndexFunc failed on a closure that would have returned nil when asked again.
C9_Witness ==
    /\ op.fn = "IndexFunc"
    /\ cur.kind = "PropertyError"
    /\ op.arg.results[2] = Nil
    /\ op.calls = 1

\* C10: a layer renders a bracketed index in Error() and Property() iff it was
\* made by IndexFunc/Index with a key that is not nil; IndexFunc(nil, f) gives
\* the error PropertyFunc("", f) gives, which around a leaf is ": message"
\* and inside a named layer follows the name without a separator.
C10_IndexSegment ==
    /\ out.method = "Error" =>
        Count(out.str, "[") = Cardinality({i \in 1..Len(log) : Keyed(log[i])})
    /\ out.method = "Property" =>
        Count(out.str, "[") = IF Keyed(log[1]) THEN 1 ELSE 0
    /\ (op.fn \in {"IndexFunc", "Index"} /\ op.label = NilValue /\ cur /= Nil) =>
        LET p == IF op.fn = "IndexFunc"
                 THEN PropertyFunc(StringValue(sEmpty), op.arg).err
                 ELSE Property(sEmpty, op.arg).err
        IN  /\ cur = p
            /\ PropertyError_Error(cur) = PropertyError_Error(p)
            /\ PropertyError_Property(cur) = PropertyError_Property(p)
            /\ cur.err.kind = "error" =>
                PropertyError_Error(cur) = <<":", " ">> \o cur.err.msg
    /\ (out.method = "Error" /\ Len(log) >= 2 /\ Named(log[1])
            /\ log[2] = [fn |-> "IndexFunc", label |-> NilValue]) =>
        /\ out.str = FormatV(log[1].label) \o PropertyError_Error(cur.err)
        /\ (Len(log) = 2 /\ log[1].label = StringValue(sA)) =>
            out.str = <<"A", ":", " ", "q", "u", "x">>

\* Error() was called on a named layer around the layer IndexFunc(nil, f) made
\* around a leaf.
C10_Witness ==
    /\ out.method = "Error"
    /\ Len(log) = 2
    /\ log[1] = [fn |-> "PropertyFunc", label |-> StringValue(sA)]
    /\ log[2] = [fn |-> "IndexFunc", label |-> NilValue]
    /\ cur.err.index = NilValue

====
